---- MODULE Spec2Model ----
(***************************************************************************)
(* A model of nightscout.Api (src/nightscout/api.py): the client that      *)
(* builds authenticated requests for the Nightscout REST service, sends    *)
(* them and maps the JSON answers to records.                              *)
(*                                                                         *)
(* Text is modelled as Python models it: a str is a sequence of Unicode    *)
(* code points, bytes are a sequence of numbers in 0..255.  URLs, header   *)
(* names and JSON keys, which the code only concatenates or looks up, are  *)
(* TLA+ strings.                                                           *)
(***************************************************************************)
EXTENDS Integers, Sequences, FiniteSets, TLC

(***************************************************************************)
(* Bounds of the model.                                                    *)
(***************************************************************************)
MaxSecretLen == 3   \* longest of the short api_secrets, in code points
MaxItems == 2       \* longest JSON array the service answers with

(***************************************************************************)
(* str.encode('utf-8') (api.py:38).                                        *)
(***************************************************************************)
utf8_char(cp) ==
    IF cp < 128 THEN <<cp>>
    ELSE IF cp < 2048 THEN <<192 + (cp \div 64), 128 + (cp % 64)>>
    ELSE IF cp < 65536 THEN
        <<224 + (cp \div 4096), 128 + ((cp \div 64) % 64), 128 + (cp % 64)>>
    ELSE <<240 + (cp \div 262144), 128 + ((cp \div 4096) % 64),
           128 + ((cp \div 64) % 64), 128 + (cp % 64)>>

RECURSIVE encode_utf8(_)
encode_utf8(s) ==
    IF s = <<>> THEN <<>> ELSE utf8_char(Head(s)) \o encode_utf8(Tail(s))

(***************************************************************************)
(* hashlib.sha1(...).hexdigest() (api.py:38): SHA-1 as FIPS 180-4 defines  *)
(* it.  A 32-bit word is a pair <<high 16 bits, low 16 bits>>, so that no  *)
(* intermediate value leaves the 32-bit range.                             *)
(***************************************************************************)
RECURSIVE XorBits(_, _, _)
XorBits(a, b, n) ==
    IF n = 0 THEN 0
    ELSE (((a % 2) + (b % 2)) % 2) + 2 * XorBits(a \div 2, b \div 2, n - 1)

RECURSIVE AndBits(_, _, _)
AndBits(a, b, n) ==
    IF n = 0 THEN 0
    ELSE ((a % 2) * (b % 2)) + 2 * AndBits(a \div 2, b \div 2, n - 1)

XorTab == [a \in 0..255 |-> [b \in 0..255 |-> XorBits(a, b, 8)]]
AndTab == [a \in 0..255 |-> [b \in 0..255 |-> AndBits(a, b, 8)]]

Xor16(a, b) == 256 * XorTab[a \div 256][b \div 256] + XorTab[a % 256][b % 256]
And16(a, b) == 256 * AndTab[a \div 256][b \div 256] + AndTab[a % 256][b % 256]
Not16(a) == 65535 - a

Xor32(x, y) == <<Xor16(x[1], y[1]), Xor16(x[2], y[2])>>
And32(x, y) == <<And16(x[1], y[1]), And16(x[2], y[2])>>
Not32(x) == <<Not16(x[1]), Not16(x[2])>>
Or32(x, y) == Not32(And32(Not32(x), Not32(y)))

Add32(x, y) ==
    LET lo == x[2] + y[2]
    IN  <<(x[1] + y[1] + (lo \div 65536)) % 65536, lo % 65536>>

\* rotate left by n, 0 < n < 16
Rotl(x, n) ==
    <<((x[1] * (2 ^ n)) % 65536) + (x[2] \div (2 ^ (16 - n))),
      ((x[2] * (2 ^ n)) % 65536) + (x[1] \div (2 ^ (16 - n)))>>

Rotl30(x) == Rotl(<<x[2], x[1]>>, 14)

Sha1H0 == << <<26437, 8961>>, <<61389, 43913>>, <<39098, 56574>>,
             <<4146, 21622>>, <<50130, 57840>> >>

Sha1K(t) ==
    IF t < 20 THEN <<23170, 31129>>
    ELSE IF t < 40 THEN <<28377, 60321>>
    ELSE IF t < 60 THEN <<36635, 48348>>
    ELSE <<51810, 49622>>

Sha1F(t, b, c, d) ==
    IF t < 20 THEN Or32(And32(b, c), And32(Not32(b), d))
    ELSE IF t < 40 THEN Xor32(Xor32(b, c), d)
    ELSE IF t < 60 THEN Or32(Or32(And32(b, c), And32(b, d)), And32(c, d))
    ELSE Xor32(Xor32(b, c), d)

Sha1Pad(m) ==
    LET L == Len(m)
        k == (119 - (L % 64)) % 64
        bits == 8 * L
    IN  m \o <<128>> \o [i \in 1..k |-> 0] \o
        <<0, 0, 0, 0, (bits \div 16777216) % 256, (bits \div 65536) % 256,
          (bits \div 256) % 256, bits % 256>>

Sha1BlockWords(p, blk) ==
    [t \in 1..16 |->
        LET o == 64 * blk + 4 * (t - 1)
        IN  <<p[o + 1] * 256 + p[o + 2], p[o + 3] * 256 + p[o + 4]>>]

RECURSIVE Sha1Schedule(_)
Sha1Schedule(w) ==
    IF Len(w) = 80 THEN w
    ELSE LET n == Len(w) + 1
         IN  Sha1Schedule(Append(w,
                 Rotl(Xor32(Xor32(w[n - 3], w[n - 8]),
                            Xor32(w[n - 14], w[n - 16])), 1)))

Sha1Step(s, wt, t) ==
    LET temp == Add32(Add32(Add32(Add32(Rotl(s[1], 5),
                                        Sha1F(t, s[2], s[3], s[4])),
                                  s[5]), Sha1K(t)), wt)
    IN  <<temp, s[1], Rotl30(s[2]), s[3], s[4]>>

\* rounds lo..hi-1, split in halves to keep the evaluation shallow
RECURSIVE Sha1Rounds(_, _, _, _)
Sha1Rounds(s, w, lo, hi) ==
    IF hi = lo + 1 THEN Sha1Step(s, w[lo + 1], lo)
    ELSE LET mid == (lo + hi) \div 2
         IN  CHOOSE r \in {Sha1Rounds(s2, w, mid, hi) :
                              s2 \in {Sha1Rounds(s, w, lo, mid)}} : TRUE

RECURSIVE Sha1Blocks(_, _, _)
Sha1Blocks(h, p, blk) ==
    IF 64 * blk >= Len(p) THEN h
    ELSE CHOOSE r \in
            {Sha1Blocks([i \in 1..5 |-> Add32(h[i], s[i])], p, blk + 1) :
                s \in {Sha1Rounds(h, Sha1Schedule(Sha1BlockWords(p, blk)),
                                  0, 80)}} : TRUE

sha1(m) == Sha1Blocks(Sha1H0, Sha1Pad(m), 0)

\* the code points of "0123456789abcdef"
HexDigits ==
    <<48, 49, 50, 51, 52, 53, 54, 55, 56, 57, 97, 98, 99, 100, 101, 102>>

Hex16(v) ==
    <<HexDigits[(v \div 4096) + 1], HexDigits[((v \div 256) % 16) + 1],
      HexDigits[((v \div 16) % 16) + 1], HexDigits[(v % 16) + 1]>>

hexdigest(h) ==
    Hex16(h[1][1]) \o Hex16(h[1][2]) \o Hex16(h[2][1]) \o Hex16(h[2][2]) \o
    Hex16(h[3][1]) \o Hex16(h[3][2]) \o Hex16(h[4][1]) \o Hex16(h[4][2]) \o
    Hex16(h[5][1]) \o Hex16(h[5][2])

(***************************************************************************)
(* The configurations a client is constructed with (api.py:27-30).         *)
(* api_secret is None or a str; a str is a sequence of code points.        *)
(***************************************************************************)
None == [none |-> TRUE]
Str(s) == [str |-> s]

\* "A", "e" with acute accent, the euro sign, an emoji: 1 to 4 bytes in UTF-8
SecretChars == <<65, 233, 8364, 128512>>

\* the first n code points of "A", e-acute, euro, emoji, "A", e-acute, ...
SecretText(n) == [i \in 1..n |-> SecretChars[((i - 1) % 4) + 1]]

\* 30 code points, 73 bytes in UTF-8: a message of two SHA-1 blocks
LongSecret == SecretText(30)

SeqsUpTo(S, n) == UNION {[1..k -> S] : k \in 0..n}

SecretStrings ==
    {SecretText(n) : n \in 0..MaxSecretLen} \cup {LongSecret}
Secrets == {None} \cup {Str(s) : s \in SecretStrings}
SiteUrls == {"https://ns.example", "https://ns.example/"}

\* the digests of the secrets of the model, each computed by sha1
sha1_hexdigest == [m \in {encode_utf8(s) : s \in SecretStrings} |->
                      hexdigest(sha1(m))]

(***************************************************************************)
(* JSON values, and the text of a response body.  A body is a sequence of  *)
(* lexical tokens: "[", "]", ",", a literal (a JSON object, written as one *)
(* token) or text that is not JSON.  An empty body is the empty sequence.  *)
(***************************************************************************)
JArray(items) == [t |-> "array", items |-> items]
JObject(fields) == [t |-> "object", fields |-> fields]
JString(chars) == [t |-> "string", chars |-> chars]

LBracket == [tok |-> "["]
RBracket == [tok |-> "]"]
Comma == [tok |-> ","]
NotJson == [tok |-> "<html>"]
Lit(v) == [lit |-> v]
IsLit(token) == "lit" \in DOMAIN token

\* the service's serialisation of a JSON value
RECURSIVE JoinItems(_)
JoinItems(items) ==
    IF items = <<>> THEN <<>>
    ELSE IF Len(items) = 1 THEN <<Lit(items[1])>>
    ELSE <<Lit(items[1]), Comma>> \o JoinItems(Tail(items))

Serialise(v) ==
    IF v.t = "array" THEN <<LBracket>> \o JoinItems(v.items) \o <<RBracket>>
    ELSE <<Lit(v)>>

\* documents the service holds
DocA == JObject([sgv |-> 120, timestamp |-> "2024-01-01T00:00:00.000Z",
                 direction |-> "Flat", eventType |-> "Note",
                 created_at |-> "2024-01-01T00:00:05.000Z",
                 activity_type |-> "Heartrate", value |-> 70,
                 name |-> "Default", timezone |-> "UTC"])
DocB == JObject([sgv |-> 95, timestamp |-> "2024-01-01T00:05:00.000Z",
                 eventType |-> "Meal Bolus",
                 created_at |-> "2024-01-01T00:05:05.000Z",
                 name |-> "Night"])
\* an object without any of the required fields
DocBad == JObject([direction |-> "Flat"])
StatusOk == JObject([status |-> "ok"])

Documents == {DocA, DocB, DocBad}

\* the sequences of up to n documents, no document twice
Collections(n) ==
    {items \in SeqsUpTo(Documents, n) :
        \A i, j \in 1..Len(items) : i # j => items[i] # items[j]}

Bodies ==
    {<<>>, <<NotJson>>, <<LBracket, Lit(DocA)>>, Serialise(StatusOk)}
    \cup {Serialise(JArray(items)) : items \in Collections(MaxItems)}

\* the bodies that come with a status other than 200
ShortBodies == {<<>>, <<NotJson>>, Serialise(StatusOk)}

\* what the transport does with a request: it fails, or it delivers a response
ConnectionFailure == [fail |-> "ConnectionError"]
Responses ==
    {ConnectionFailure}
    \cup {[status_code |-> 200, content |-> b] : b \in Bodies}
    \cup {[status_code |-> c, content |-> b] : c \in {201, 500},
                                                b \in ShortBodies}
IsFailure(resp) == "fail" \in DOMAIN resp

(***************************************************************************)
(* r.json() (api.py:51,64,78,91,131,172,189): the body parsed as JSON.     *)
(***************************************************************************)
ArrayTextOk(inner) ==
    \/ Len(inner) = 0
    \/ /\ Len(inner) % 2 = 1
       /\ \A i \in 1..Len(inner) :
              IF i % 2 = 1 THEN IsLit(inner[i]) ELSE inner[i] = Comma

json_loads(content) ==
    IF Len(content) = 1 /\ IsLit(content[1])
    THEN [ok |-> TRUE, value |-> content[1].lit]
    ELSE IF /\ Len(content) >= 2
            /\ content[1] = LBracket
            /\ content[Len(content)] = RBracket
            /\ ArrayTextOk(SubSeq(content, 2, Len(content) - 1))
    THEN [ok |-> TRUE,
          value |-> JArray([i \in 1..(Len(content) - 1) \div 2 |->
                               content[2 * i].lit])]
    ELSE [ok |-> FALSE]

(***************************************************************************)
(* The record types (SGV, Treatment, Activity, ProfileDefinition,          *)
(* ProfileDefinitionSet) are imported by api.py from the package; their    *)
(* mapping is modelled from the specification: a record is built from a    *)
(* JSON object, keeps the fields its type knows, leaves an absent optional *)
(* field absent, and fails when the value is no object or a required field *)
(* is missing.                                                             *)
(***************************************************************************)
KnownKeys(cls) ==
    CASE cls = "SGV" -> {"sgv", "timestamp", "direction", "device"}
      [] cls = "Treatment" ->
             {"eventType", "timestamp", "insulin", "carbs", "notes"}
      [] cls = "Activity" ->
             {"timestamp", "created_at", "activity_type", "type", "duration",
              "eventType", "value"}
      [] cls = "ProfileDefinition" -> {"name", "schedules", "timezone"}

RequiredKeys(cls) ==
    CASE cls = "SGV" -> {"sgv", "timestamp"}
      [] cls = "Treatment" -> {"eventType", "timestamp"}
      [] cls = "Activity" -> {"timestamp", "created_at"}
      [] cls = "ProfileDefinition" -> {"name"}

new_from_json_dict(cls, x) ==
    IF x.t = "object" /\ RequiredKeys(cls) \subseteq DOMAIN x.fields
    THEN [ok |-> TRUE,
          record |-> [type |-> cls,
                      attrs |-> [k \in KnownKeys(cls) \cap DOMAIN x.fields |->
                                    x.fields[k]]]]
    ELSE [ok |-> FALSE]

(***************************************************************************)
(* What a call gives its caller: a value, or an exception.                 *)
(***************************************************************************)
ReturnList(items) == [ret |-> "list", items |-> items]
ReturnProfileSet(profiles) == [ret |-> "ProfileDefinitionSet",
                               profiles |-> profiles]
ReturnJson(v) == [ret |-> "json", json |-> v]
ReturnHeaders(h) == [ret |-> "headers", headers |-> h]
ReturnNone == [ret |-> "None"]
Raise(e) == [raise |-> e]
Raised(outcome) == "raise" \in DOMAIN outcome

\* the keys of a JSON object, as iterating a dict yields them
RECURSIVE KeysOf(_)
KeysOf(keys) ==
    IF keys = {} THEN <<>>
    ELSE LET k == CHOOSE k \in keys : TRUE
         IN  <<JString(k)>> \o KeysOf(keys \ {k})

IterItems(v) == IF v.t = "array" THEN v.items ELSE KeysOf(DOMAIN v.fields)

\* a comprehension that builds its list back to front
RECURSIVE comprehension_prepend(_, _, _)
comprehension_prepend(cls, items, acc) ==
    IF items = <<>> THEN ReturnList(acc)
    ELSE LET m == new_from_json_dict(cls, Head(items))
         IN  IF m.ok
             THEN comprehension_prepend(cls, Tail(items), <<m.record>> \o acc)
             ELSE Raise("MappingError")

\* a comprehension that leaves out the elements that cannot be mapped
RECURSIVE comprehension_skip(_, _, _)
comprehension_skip(cls, items, acc) ==
    IF items = <<>> THEN ReturnList(acc)
    ELSE LET m == new_from_json_dict(cls, Head(items))
         IN  comprehension_skip(cls, Tail(items),
                                IF m.ok THEN Append(acc, m.record) ELSE acc)

\* [cls.new_from_json_dict(x) for x in items] (api.py:51,64,91,189): the
\* elements are mapped in order; the first failure ends the comprehension
RECURSIVE comprehension(_, _, _)
comprehension(cls, items, acc) ==
    IF items = <<>> THEN ReturnList(acc)
    ELSE LET m == new_from_json_dict(cls, Head(items))
         IN  IF m.ok THEN comprehension(cls, Tail(items), Append(acc, m.record))
             ELSE Raise("MappingError")

\* [cls.new_from_json_dict(x) for x in r.json()]
map_json(cls, r) ==
    LET j == json_loads(r.content)
    IN  IF j.ok THEN comprehension(cls, IterItems(j.value), <<>>)
        ELSE Raise("JSONDecodeError")

\* ProfileDefinitionSet.new_from_json_array (api.py:78), from the
\* specification: one ProfileDefinition per element, in array order
new_from_json_array(v) ==
    IF v.t = "array"
    THEN LET m == comprehension("ProfileDefinition", v.items, <<>>)
         IN  IF Raised(m) THEN m ELSE ReturnProfileSet(m.items)
    ELSE Raise("MappingError")

(***************************************************************************)
(* The literal texts of api.py.                                            *)
(***************************************************************************)
\* 'application/json' (api.py:34-35)
application_json ==
    <<97, 112, 112, 108, 105, 99, 97, 116, 105, 111, 110, 47, 106, 115, 111,
      110>>

\* json.dumps of activity_data of create_activity (api.py:105-124):
\* [{"timestamp": "2023-10-18T08:30:00.000Z", "created_at":
\* "2023-10-18T08:30:00.000Z", "activity_type": "Running"}, {"timestamp":
\* "2023-10-18T12:00:00.000Z", "created_at": "2023-10-18T12:00:00.000Z",
\* "type": "Cycling", "duration": 100, "eventType": "Cycling"}]
activity_data_running ==
    <<91, 123, 34, 116, 105, 109, 101, 115, 116, 97, 109, 112, 34, 58, 32, 34,
      50, 48, 50, 51, 45, 49, 48, 45, 49, 56, 84, 48, 56, 58, 51, 48, 58, 48,
      48, 46, 48, 48, 48, 90, 34, 44, 32, 34, 99, 114, 101, 97, 116, 101, 100,
      95, 97, 116, 34, 58, 32, 34, 50, 48, 50, 51, 45, 49, 48, 45, 49, 56, 84,
      48, 56, 58, 51, 48, 58, 48, 48, 46, 48, 48, 48, 90, 34, 44, 32, 34, 97,
      99, 116, 105, 118, 105, 116, 121, 95, 116, 121, 112, 101, 34, 58, 32,
      34, 82, 117, 110, 110, 105, 110, 103, 34, 125, 44, 32, 123, 34, 116,
      105, 109, 101, 115, 116, 97, 109, 112, 34, 58, 32, 34, 50, 48, 50, 51,
      45, 49, 48, 45, 49, 56, 84, 49, 50, 58, 48, 48, 58, 48, 48, 46, 48, 48,
      48, 90, 34, 44, 32, 34, 99, 114, 101, 97, 116, 101, 100, 95, 97, 116,
      34, 58, 32, 34, 50, 48, 50, 51, 45, 49, 48, 45, 49, 56, 84, 49, 50, 58,
      48, 48, 58, 48, 48, 46, 48, 48, 48, 90, 34, 44, 32, 34, 116, 121, 112,
      101, 34, 58, 32, 34, 67, 121, 99, 108, 105, 110, 103, 34, 44, 32, 34,
      100, 117, 114, 97, 116, 105, 111, 110, 34, 58, 32, 49, 48, 48, 44, 32,
      34, 101, 118, 101, 110, 116, 84, 121, 112, 101, 34, 58, 32, 34, 67, 121,
      99, 108, 105, 110, 103, 34, 125, 93>>

\* json.dumps of activity_data of create_heartrate (api.py:146-165):
\* [{"timestamp": "2023-10-18T08:30:00.000Z", "created_at":
\* "2023-10-18T08:30:00.000Z", "activity_type": "Heartrate", "value": 70},
\* {"timestamp": "2023-10-18T12:00:00.000Z", "created_at":
\* "2023-10-18T12:00:00.000Z", "eventType": "Heartrate", "value": 80}]
activity_data_heartrate ==
    <<91, 123, 34, 116, 105, 109, 101, 115, 116, 97, 109, 112, 34, 58, 32, 34,
      50, 48, 50, 51, 45, 49, 48, 45, 49, 56, 84, 48, 56, 58, 51, 48, 58, 48,
      48, 46, 48, 48, 48, 90, 34, 44, 32, 34, 99, 114, 101, 97, 116, 101, 100,
      95, 97, 116, 34, 58, 32, 34, 50, 48, 50, 51, 45, 49, 48, 45, 49, 56, 84,
      48, 56, 58, 51, 48, 58, 48, 48, 46, 48, 48, 48, 90, 34, 44, 32, 34, 97,
      99, 116, 105, 118, 105, 116, 121, 95, 116, 121, 112, 101, 34, 58, 32,
      34, 72, 101, 97, 114, 116, 114, 97, 116, 101, 34, 44, 32, 34, 118, 97,
      108, 117, 101, 34, 58, 32, 55, 48, 125, 44, 32, 123, 34, 116, 105, 109,
      101, 115, 116, 97, 109, 112, 34, 58, 32, 34, 50, 48, 50, 51, 45, 49, 48,
      45, 49, 56, 84, 49, 50, 58, 48, 48, 58, 48, 48, 46, 48, 48, 48, 90, 34,
      44, 32, 34, 99, 114, 101, 97, 116, 101, 100, 95, 97, 116, 34, 58, 32,
      34, 50, 48, 50, 51, 45, 49, 48, 45, 49, 56, 84, 49, 50, 58, 48, 48, 58,
      48, 48, 46, 48, 48, 48, 90, 34, 44, 32, 34, 101, 118, 101, 110, 116, 84,
      121, 112, 101, 34, 58, 32, 34, 72, 101, 97, 114, 116, 114, 97, 116, 101,
      34, 44, 32, 34, 118, 97, 108, 117, 101, 34, 58, 32, 56, 48, 125, 93>>

(***************************************************************************)
(* Api.request_headers (api.py:32-39).                                     *)
(***************************************************************************)
\* the truth value of self.api_secret: neither None nor the empty string
Truthy(secret) == "str" \in DOMAIN secret /\ Len(secret.str) > 0

\* request_headers testing "is not None" instead of the truth value
request_headers_not_none(self) ==
    LET headers == ("Content-Type" :> application_json) @@
                   ("Accept" :> application_json)
    IN  IF "str" \in DOMAIN self.api_secret
        THEN ("api-secret" :> sha1_hexdigest[encode_utf8(self.api_secret.str)])
             @@ headers
        ELSE headers

\* request_headers sending the secret itself
request_headers_plain(self) ==
    LET headers == ("Content-Type" :> application_json) @@
                   ("Accept" :> application_json)
    IN  IF Truthy(self.api_secret)
        THEN ("api-secret" :> self.api_secret.str) @@ headers
        ELSE headers

request_headers(self) ==
    LET headers == ("Content-Type" :> application_json) @@
                   ("Accept" :> application_json)
    IN  IF Truthy(self.api_secret)
        THEN ("api-secret" :> sha1_hexdigest[encode_utf8(self.api_secret.str)])
             @@ headers
        ELSE headers

(***************************************************************************)
(* The fetch and create methods.  Each takes the client, the query         *)
(* parameters and what the transport does with the request (resp), and     *)
(* gives the requests it sent, what it printed and its outcome.            *)
(***************************************************************************)
Get(url, headers, params) ==
    [method |-> "GET", url |-> url, headers |-> headers, params |-> params,
     body |-> <<>>]

Post(url, json, headers) ==
    [method |-> "POST", url |-> url, headers |-> headers, params |-> {},
     body |-> json]

Result(sent, printed, outcome) ==
    [sent |-> sent, printed |-> printed, outcome |-> outcome]

\* get_sgvs sending the request again when the transport failed
get_sgvs_retry(self, params, resp) ==
    LET req == Get(self.site_url \o "/api/v1/entries/sgv.json",
                   request_headers(self), params)
    IN  Result(IF IsFailure(resp) THEN <<req, req>> ELSE <<req>>, <<>>,
               IF IsFailure(resp) THEN Raise(resp.fail)
               ELSE map_json("SGV", resp))

\* Api.get_sgvs (api.py:41-51)
get_sgvs(self, params, resp) ==
    Result(<<Get(self.site_url \o "/api/v1/entries/sgv.json",
                 request_headers(self), params)>>, <<>>,
           IF IsFailure(resp) THEN Raise(resp.fail)
           ELSE map_json("SGV", resp))

\* get_treatments without the test of the body's length
get_treatments_unguarded(self, params, resp) ==
    Result(<<Get(self.site_url \o "/api/v1/treatments.json",
                 request_headers(self), params)>>, <<>>,
           IF IsFailure(resp) THEN Raise(resp.fail)
           ELSE map_json("Treatment", resp))

\* Api.get_treatments (api.py:53-66)
get_treatments(self, params, resp) ==
    Result(<<Get(self.site_url \o "/api/v1/treatments.json",
                 request_headers(self), params)>>, <<>>,
           IF IsFailure(resp) THEN Raise(resp.fail)
           ELSE IF Len(resp.content) > 0 THEN map_json("Treatment", resp)
           ELSE ReturnList(<<>>))

\* get_profiles with the test of the body's length of the other fetches
get_profiles_guarded(self, params, resp) ==
    Result(<<Get(self.site_url \o "/api/v1/profile.json",
                 request_headers(self), params)>>, <<>>,
           IF IsFailure(resp) THEN Raise(resp.fail)
           ELSE IF Len(resp.content) > 0
           THEN LET j == json_loads(resp.content)
                IN  IF j.ok THEN new_from_json_array(j.value)
                    ELSE Raise("JSONDecodeError")
           ELSE ReturnProfileSet(<<>>))

\* Api.get_profiles (api.py:68-78)
get_profiles(self, params, resp) ==
    Result(<<Get(self.site_url \o "/api/v1/profile.json",
                 request_headers(self), params)>>, <<>>,
           IF IsFailure(resp) THEN Raise(resp.fail)
           ELSE LET j == json_loads(resp.content)
                IN  IF j.ok THEN new_from_json_array(j.value)
                    ELSE Raise("JSONDecodeError"))

\* Api.get_activities (api.py:80-93)
get_activities(self, params, resp) ==
    Result(<<Get(self.site_url \o "/api/v1/activity.json",
                 request_headers(self), params)>>, <<>>,
           IF IsFailure(resp) THEN Raise(resp.fail)
           ELSE IF Len(resp.content) > 0 THEN map_json("Activity", resp)
           ELSE ReturnList(<<>>))

\* the status handling with 200 taken for the status of success
created_on_200(resp) ==
    IF IsFailure(resp) THEN [printed |-> <<>>, outcome |-> Raise(resp.fail)]
    ELSE IF resp.status_code = 200
    THEN LET j == json_loads(resp.content)
         IN  [printed |-> <<>>,
              outcome |-> IF j.ok THEN ReturnJson(j.value)
                          ELSE Raise("JSONDecodeError")]
    ELSE [printed |-> <<[text |-> "Error creating activity. Status code: ",
                         status_code |-> resp.status_code]>>,
          outcome |-> ReturnNone]

\* the status handling of both create methods (api.py:129-135, 170-176)
created(resp) ==
    IF IsFailure(resp) THEN [printed |-> <<>>, outcome |-> Raise(resp.fail)]
    ELSE IF resp.status_code = 201
    THEN LET j == json_loads(resp.content)
         IN  [printed |-> <<>>,
              outcome |-> IF j.ok THEN ReturnJson(j.value)
                          ELSE Raise("JSONDecodeError")]
    ELSE [printed |-> <<[text |-> "Error creating activity. Status code: ",
                         status_code |-> resp.status_code]>>,
          outcome |-> ReturnNone]

\* Api.create_activity (api.py:96-135)
create_activity(self, resp) ==
    LET c == created(resp)
    IN  Result(<<Post(self.site_url \o "/api/v1/activity.json",
                      activity_data_running, request_headers(self))>>,
               c.printed, c.outcome)

\* Api.create_heartrate (api.py:137-176)
create_heartrate(self, resp) ==
    LET c == created(resp)
    IN  Result(<<Post(self.site_url \o "/api/v1/activity.json",
                      activity_data_heartrate, request_headers(self))>>,
               c.printed, c.outcome)

\* Api.get_heartrate (api.py:178-191)
get_heartrate(self, params, resp) ==
    Result(<<Get(self.site_url \o "/api/v1/activity.json",
                 request_headers(self), params)>>, <<>>,
           IF IsFailure(resp) THEN Raise(resp.fail)
           ELSE IF Len(resp.content) > 0 THEN map_json("Treatment", resp)
           ELSE ReturnList(<<>>))

(***************************************************************************)
(* The state: the client's two attributes, the default value of the        *)
(* params argument of each fetch method (one dict per method, created when *)
(* the method is defined and shared by every call that omits params), the  *)
(* requests the latest call put on the wire, and what the latest call was  *)
(* and gave.                                                               *)
(***************************************************************************)
VARIABLES site_url, api_secret, params_defaults, wire, last

vars == <<site_url, api_secret, params_defaults, wire, last>>

FetchOps == {"get_sgvs", "get_treatments", "get_profiles", "get_activities",
             "get_heartrate"}
CreateOps == {"create_activity", "create_heartrate"}

\* query parameters a caller passes: a mapping, as a set of <<key, value>>
QueryParams ==
    {{<<"count", "0">>,
      <<"find[dateString][$gte]", "2017-03-07T01:10:26.000Z">>}}

\* the params argument of a call: omitted, or given
Omitted == [given |-> FALSE]
Given(p) == [given |-> TRUE, params |-> p]
Args == {Omitted} \cup {Given(p) : p \in QueryParams}

NoResponse == [none |-> TRUE]
NoCall == [op |-> "none"]

Self == [site_url |-> site_url, api_secret |-> api_secret]

\* the value params is bound to in a call of op
Bound(op, arg) == IF arg.given THEN arg.params ELSE params_defaults[op]

\* Api.__init__ (api.py:27-30)
Init ==
    /\ site_url \in SiteUrls
    /\ api_secret \in Secrets
    /\ params_defaults = [op \in FetchOps |-> {}]
    /\ wire = <<>>
    /\ last = NoCall

\* what is kept of a call: the operation, its argument, what the transport
\* did, and what the call printed and gave
CallOf(op, arg, resp, res) ==
    [op |-> op, arg |-> arg, response |-> resp, printed |-> res.printed,
     outcome |-> res.outcome]

\* Api.request_headers (api.py:32-39), called by the client's user
RequestHeaders ==
    /\ wire' = <<>>
    /\ last' = [op |-> "request_headers", arg |-> Omitted,
                response |-> NoResponse, printed |-> <<>>,
                outcome |-> ReturnHeaders(request_headers(Self))]
    /\ UNCHANGED <<site_url, api_secret, params_defaults>>

\* a get_sgvs that writes into the dict it got as params
GetSgvs_writing_params ==
    \E arg \in Args, resp \in Responses :
        \E res \in {get_sgvs(Self, Bound("get_sgvs", arg), resp)} :
            /\ wire' = res.sent
            /\ last' = CallOf("get_sgvs", arg, resp, res)
            /\ params_defaults' =
                   IF arg.given THEN params_defaults
                   ELSE [params_defaults EXCEPT
                            !["get_sgvs"] = @ \cup {<<"count", "0">>}]
            /\ UNCHANGED <<site_url, api_secret>>

\* No method of Api assigns an attribute of self, and none writes into its
\* params argument, which requests.get only reads.
GetSgvs ==
    \E arg \in Args, resp \in Responses :
        \E res \in {get_sgvs(Self, Bound("get_sgvs", arg), resp)} :
            /\ wire' = res.sent
            /\ last' = CallOf("get_sgvs", arg, resp, res)
            /\ UNCHANGED <<site_url, api_secret, params_defaults>>

GetTreatments ==
    \E arg \in Args, resp \in Responses :
        \E res \in {get_treatments(Self, Bound("get_treatments", arg), resp)} :
            /\ wire' = res.sent
            /\ last' = CallOf("get_treatments", arg, resp, res)
            /\ UNCHANGED <<site_url, api_secret, params_defaults>>

GetProfiles ==
    \E arg \in Args, resp \in Responses :
        \E res \in {get_profiles(Self, Bound("get_profiles", arg), resp)} :
            /\ wire' = res.sent
            /\ last' = CallOf("get_profiles", arg, resp, res)
            /\ UNCHANGED <<site_url, api_secret, params_defaults>>

GetActivities ==
    \E arg \in Args, resp \in Responses :
        \E res \in {get_activities(Self, Bound("get_activities", arg), resp)} :
            /\ wire' = res.sent
            /\ last' = CallOf("get_activities", arg, resp, res)
            /\ UNCHANGED <<site_url, api_secret, params_defaults>>

CreateActivity ==
    \E resp \in Responses :
        \E res \in {create_activity(Self, resp)} :
            /\ wire' = res.sent
            /\ last' = CallOf("create_activity", Omitted, resp, res)
            /\ UNCHANGED <<site_url, api_secret, params_defaults>>

CreateHeartrate ==
    \E resp \in Responses :
        \E res \in {create_heartrate(Self, resp)} :
            /\ wire' = res.sent
            /\ last' = CallOf("create_heartrate", Omitted, resp, res)
            /\ UNCHANGED <<site_url, api_secret, params_defaults>>

GetHeartrate ==
    \E arg \in Args, resp \in Responses :
        \E res \in {get_heartrate(Self, Bound("get_heartrate", arg), resp)} :
            /\ wire' = res.sent
            /\ last' = CallOf("get_heartrate", arg, resp, res)
            /\ UNCHANGED <<site_url, api_secret, params_defaults>>

Next ==
    \/ RequestHeaders
    \/ GetSgvs
    \/ GetTreatments
    \/ GetProfiles
    \/ GetActivities
    \/ CreateActivity
    \/ CreateHeartrate
    \/ GetHeartrate

Spec == Init /\ [][Next]_vars

(***************************************************************************)
(* Properties.                                                             *)
(***************************************************************************)
IsFetch == last.op \in FetchOps
IsCreate == last.op \in CreateOps
Delivered == ~IsFailure(last.response)

\* needle occurs in hay as a contiguous run
Contains(hay, needle) ==
    \E i \in 0..(Len(hay) - Len(needle)) :
        SubSeq(hay, i + 1, i + Len(needle)) = needle

\* the documents every record type can be built from
GoodDocuments == {DocA, DocB}

\* the arrays of the given documents whose serialisation is the body
ArraysOf(docs, content) ==
    {items \in SeqsUpTo(docs, Len(content) \div 2) :
        content = Serialise(JArray(items))}

\* the records of a returned list or profile set
Records(outcome) ==
    IF outcome.ret = "list" THEN outcome.items ELSE outcome.profiles

\* reference values: hashlib.sha1(s.encode('utf-8')).hexdigest() of the
\* secrets of 0, 1, 2, 3, 4 and 30 code points
Sha1Reference(s) ==
    CASE s = SecretText(0) ->
           \* da39a3ee5e6b4b0d3255bfef95601890afd80709
           <<100, 97, 51, 57, 97, 51, 101, 101, 53, 101, 54, 98, 52, 98, 48,
             100, 51, 50, 53, 53, 98, 102, 101, 102, 57, 53, 54, 48, 49, 56,
             57, 48, 97, 102, 100, 56, 48, 55, 48, 57>>
      [] s = SecretText(1) ->
           \* 6dcd4ce23d88e2ee9568ba546c007c63d9131c1b
           <<54, 100, 99, 100, 52, 99, 101, 50, 51, 100, 56, 56, 101, 50, 101,
             101, 57, 53, 54, 56, 98, 97, 53, 52, 54, 99, 48, 48, 55, 99, 54,
             51, 100, 57, 49, 51, 49, 99, 49, 98>>
      [] s = SecretText(2) ->
           \* f0c85a7f2d22d56b7a4e1d62510efdb0951f10cd
           <<102, 48, 99, 56, 53, 97, 55, 102, 50, 100, 50, 50, 100, 53, 54,
             98, 55, 97, 52, 101, 49, 100, 54, 50, 53, 49, 48, 101, 102, 100,
             98, 48, 57, 53, 49, 102, 49, 48, 99, 100>>
      [] s = SecretText(3) ->
           \* d003ffa23304fd1a4ec8d53f901a00a11100cae4
           <<100, 48, 48, 51, 102, 102, 97, 50, 51, 51, 48, 52, 102, 100, 49,
             97, 52, 101, 99, 56, 100, 53, 51, 102, 57, 48, 49, 97, 48, 48,
             97, 49, 49, 49, 48, 48, 99, 97, 101, 52>>
      [] s = SecretText(4) ->
           \* b4c2e7df7f6c3f827a872352fabccc84e2ae9fa6
           <<98, 52, 99, 50, 101, 55, 100, 102, 55, 102, 54, 99, 51, 102, 56,
             50, 55, 97, 56, 55, 50, 51, 53, 50, 102, 97, 98, 99, 99, 99, 56,
             52, 101, 50, 97, 101, 57, 102, 97, 54>>
      [] s = LongSecret ->
           \* d2a8b17a7b486def7249a8a836475bf15e29c506
           <<100, 50, 97, 56, 98, 49, 55, 97, 55, 98, 52, 56, 54, 100, 101,
             102, 55, 50, 52, 57, 97, 56, 97, 56, 51, 54, 52, 55, 53, 98, 102,
             49, 53, 101, 50, 57, 99, 53, 48, 54>>
      [] OTHER -> hexdigest(sha1(encode_utf8(s)))

\* the headers the claims ask for, given the secret
HeadersAsked(secret) ==
    IF "str" \in DOMAIN secret /\ secret.str # <<>>
    THEN ("Content-Type" :> application_json) @@
         ("Accept" :> application_json) @@
         ("api-secret" :> Sha1Reference(secret.str))
    ELSE ("Content-Type" :> application_json) @@
         ("Accept" :> application_json)

\* C1: the headers request_headers builds, and those of every request sent,
\* hold Content-Type and Accept application/json, hold api-secret exactly
\* when the secret is present and not empty, its value then being the
\* lowercase hex SHA-1 digest of the secret's UTF-8 bytes, and hold no other
\* header.
C1_HeadersContract ==
    /\ last.op = "request_headers" =>
           last.outcome = ReturnHeaders(HeadersAsked(api_secret))
    /\ \A i \in 1..Len(wire) : wire[i].headers = HeadersAsked(api_secret)

C1_Witness ==
    /\ last.op = "request_headers"
    /\ api_secret = Str(LongSecret)
    /\ last.outcome.headers["api-secret"] = Sha1Reference(LongSecret)
    /\ DOMAIN last.outcome.headers = {"Content-Type", "Accept", "api-secret"}

\* the request a client without a secret sends in the latest call
SentWithoutSecret ==
    LET anon == [site_url |-> site_url, api_secret |-> None]
        p == Bound(last.op, last.arg)
        r == last.response
    IN  CASE last.op = "get_sgvs" -> get_sgvs(anon, p, r).sent
          [] last.op = "get_treatments" -> get_treatments(anon, p, r).sent
          [] last.op = "get_profiles" -> get_profiles(anon, p, r).sent
          [] last.op = "get_activities" -> get_activities(anon, p, r).sent
          [] last.op = "get_heartrate" -> get_heartrate(anon, p, r).sent
          [] last.op = "create_activity" -> create_activity(anon, r).sent
          [] last.op = "create_heartrate" -> create_heartrate(anon, r).sent
          [] OTHER -> <<>>

WithoutApiSecret(headers) ==
    [name \in DOMAIN headers \ {"api-secret"} |-> headers[name]]

\* C2: with a non-empty secret, no request sent holds the secret, as text or
\* as its UTF-8 bytes, in a header value or in the body; apart from the
\* api-secret header, whose value is the digest, the request is the one a
\* client without secret sends.
C2_NoRawSecretOnWire ==
    Truthy(api_secret) =>
        /\ Len(wire) = Len(SentWithoutSecret)
        /\ \A i \in 1..Len(wire) :
              /\ \A name \in DOMAIN wire[i].headers :
                     /\ ~Contains(wire[i].headers[name], api_secret.str)
                     /\ ~Contains(wire[i].headers[name],
                                  encode_utf8(api_secret.str))
              /\ ~Contains(wire[i].body, api_secret.str)
              /\ ~Contains(wire[i].body, encode_utf8(api_secret.str))
              /\ wire[i].headers["api-secret"] = Sha1Reference(api_secret.str)
              /\ [wire[i] EXCEPT !.headers = WithoutApiSecret(@)]
                     = SentWithoutSecret[i]

C2_Witness ==
    /\ api_secret = Str(SecretText(1))
    /\ last.op = "create_heartrate"
    /\ Len(wire) = 1
    /\ wire[1].body = activity_data_heartrate
    /\ wire[1].headers["api-secret"] = Sha1Reference(SecretText(1))

\* C3: get_treatments, get_activities and get_heartrate return the empty
\* list for a body of length zero, and end in a decode error only for a body
\* of positive length (which, when it is not JSON, does end in one).
C3_EmptyBodyIsEmptyList ==
    (last.op \in {"get_treatments", "get_activities", "get_heartrate"}
       /\ Delivered) =>
        /\ Len(last.response.content) = 0 => last.outcome = ReturnList(<<>>)
        /\ last.outcome = Raise("JSONDecodeError") =>
               Len(last.response.content) > 0
        /\ last.response.content \in {<<NotJson>>, <<LBracket, Lit(DocA)>>} =>
               last.outcome = Raise("JSONDecodeError")

C3_Witness ==
    /\ last.op = "get_heartrate"
    /\ Delivered
    /\ last.response.content = <<>>
    /\ last.outcome = ReturnList(<<>>)

\* C4: get_profiles decodes every body: a body of length zero ends in a
\* decode error, and the body of an array of profile documents gives a
\* ProfileDefinitionSet of one ProfileDefinition per element, in the order
\* of the array; the empty array gives a set of no definitions.
C4_ProfilesAlwaysDecode ==
    (last.op = "get_profiles" /\ Delivered) =>
        /\ last.response.content = <<>> =>
               last.outcome = Raise("JSONDecodeError")
        /\ last.response.content = <<LBracket, RBracket>> =>
               last.outcome = ReturnProfileSet(<<>>)
        /\ \A items \in ArraysOf(GoodDocuments, last.response.content) :
              /\ "profiles" \in DOMAIN last.outcome
              /\ Len(last.outcome.profiles) = Len(items)
              /\ \A i \in 1..Len(items) :
                    /\ last.outcome.profiles[i].type = "ProfileDefinition"
                    /\ last.outcome.profiles[i].attrs.name
                           = items[i].fields.name

C4_Witness ==
    /\ last.op = "get_profiles"
    /\ Delivered
    /\ last.response.content = <<>>
    /\ last.outcome = Raise("JSONDecodeError")

\* C5: for the body of an array of well-formed SGV documents get_sgvs
\* returns a list of as many SGV records, the i-th having the sgv of the i-th
\* document; the empty array gives the empty list.
C5_SgvsInOrder ==
    (last.op = "get_sgvs" /\ Delivered) =>
        \A items \in ArraysOf(GoodDocuments, last.response.content) :
            /\ "items" \in DOMAIN last.outcome
            /\ Len(last.outcome.items) = Len(items)
            /\ \A i \in 1..Len(items) :
                  /\ last.outcome.items[i].type = "SGV"
                  /\ last.outcome.items[i].attrs.sgv = items[i].fields.sgv

C5_Witness ==
    /\ last.op = "get_sgvs"
    /\ Delivered
    /\ last.response.content = Serialise(JArray(<<DocA, DocB>>))
    /\ Len(last.outcome.items) = 2
    /\ last.outcome.items[1].attrs.sgv = 120
    /\ last.outcome.items[2].attrs.sgv = 95

\* C6: create_activity and create_heartrate return the decoded body when the
\* status is 201, and for any other status return None and do not raise.
C6_CreateStatus ==
    (IsCreate /\ Delivered) =>
        /\ (last.response.status_code = 201
              /\ last.response.content = Serialise(StatusOk)) =>
               last.outcome = ReturnJson(StatusOk)
        /\ last.response.status_code # 201 => last.outcome = ReturnNone

C6_Witness ==
    /\ last.op = "create_activity"
    /\ Delivered
    /\ last.response.status_code = 500
    /\ last.outcome = ReturnNone

\* C7: for one and the same response get_heartrate returns what
\* get_activities returns: the list of Activity records.
C7_HeartrateIsActivities ==
    last.op = "get_heartrate" =>
        last.outcome
            = get_activities(Self, Bound("get_activities", last.arg),
                             last.response).outcome

\* the method and the path of each operation, as the claim lists them
MethodOf(op) == IF op \in CreateOps THEN "POST" ELSE "GET"
PathOf(op) ==
    CASE op = "get_sgvs" -> "/api/v1/entries/sgv.json"
      [] op = "get_treatments" -> "/api/v1/treatments.json"
      [] op = "get_profiles" -> "/api/v1/profile.json"
      [] op \in {"get_activities", "get_heartrate", "create_activity",
                 "create_heartrate"} -> "/api/v1/activity.json"

\* C8: a fetch or create call sends exactly one request, whatever its
\* outcome, with the method and path of the operation, the path appended to
\* site_url as it is.
C8_OneRequestPerCall ==
    (IsFetch \/ IsCreate) =>
        /\ Len(wire) = 1
        /\ wire[1].method = MethodOf(last.op)
        /\ wire[1].url = site_url \o PathOf(last.op)

C8_Witness ==
    /\ last.op = "get_sgvs"
    /\ IsFailure(last.response)
    /\ Raised(last.outcome)
    /\ Len(wire) = 1
    /\ wire[1].url = "https://ns.example//api/v1/entries/sgv.json"

\* C9: a fetch either fails or returns a record for every element: a
\* transport failure, a body that is not JSON and is not empty, and an array
\* with an element that cannot be mapped, at any position, make it raise, and
\* a fetch that returns for an array returns as many records as the array has
\* elements.
C9_NoPartialResult ==
    IsFetch =>
        /\ IsFailure(last.response) => Raised(last.outcome)
        /\ Delivered =>
              /\ last.response.content
                     \in {<<NotJson>>, <<LBracket, Lit(DocA)>>} =>
                     Raised(last.outcome)
              /\ \A items \in ArraysOf(Documents, last.response.content) :
                    /\ (\E i \in 1..Len(items) : items[i] = DocBad) =>
                           Raised(last.outcome)
                    /\ ~Raised(last.outcome) =>
                           Len(Records(last.outcome)) = Len(items)

C9_Witness ==
    /\ last.op = "get_treatments"
    /\ Delivered
    /\ last.response.content = Serialise(JArray(<<DocA, DocBad>>))
    /\ Raised(last.outcome)

\* C10: no step changes site_url, api_secret or the default of params; the
\* headers of the requests of two calls in a row are the same; the params
\* sent are those of the call, none when the call gives none; and a call
\* that repeats the latest call with the same response gives the same
\* outcome and the same request.
C10_Frame ==
    [][/\ site_url' = site_url
       /\ api_secret' = api_secret
       /\ params_defaults' = params_defaults
       /\ (wire # <<>> /\ wire' # <<>>) =>
              wire'[1].headers = wire[1].headers
       /\ \A i \in 1..Len(wire') :
              wire'[i].params =
                  IF last'.arg.given THEN last'.arg.params ELSE {}
       /\ (last'.op = last.op /\ last'.arg = last.arg
             /\ last'.response = last.response) =>
              (last'.outcome = last.outcome /\ wire' = wire)]_vars

C10_Witness ==
    /\ last.op = "get_sgvs"
    /\ ~last.arg.given
    /\ Len(wire) = 1
    /\ wire[1].params = {}
    /\ params_defaults = [op \in FetchOps |-> {}]
====
